---- MODULE Spec2Model ----
(***************************************************************************)
(* Operator console of the trading-bot fleet: the App component (initial   *)
(* load, start / shutdown commands), the StatusDisplay component (status   *)
(* polling with a localStorage cache) and the BotControls component        *)
(* (command buttons).                                                      *)
(*                                                                         *)
(* JavaScript runs the handlers on one thread; an async function is cut    *)
(* into steps at each `await`.  Every action below is one such step: the   *)
(* synchronous code between two awaits, together with the React render it  *)
(* causes (mounting / unmounting of StatusDisplay, interval cleanup).      *)
(* Effects run once per mount.                                             *)
(***************************************************************************)
EXTENDS Integers, Sequences, FiniteSets, TLC

\* ------------------------------------------------------------------ bounds
\* Polls that may be outstanding at once (a fetch may outlive the 5 s period).
MaxInFlight == 2
\* Pending setTimeout callbacks of BotControls that clear the action message.
MaxTimers == 1
\* Config saves in flight plus pending message timers of the form.
MaxPending == 2
\* Inputs of the form the operator changes in one behaviour.
MaxEdited == 1

\* ------------------------------------------------------------- JSON values
\* One entry of a `statuses` array: an object (a SymbolStatus) or JSON null.
ObjA == [t |-> "obj", v |-> "ETHUSDT"]
ObjB == [t |-> "obj", v |-> "ADAUSDT"]
JNull == [t |-> "null", v |-> ""]
\* Other JSON values an array in the slot may hold: a number, a nested array.
JNum == [t |-> "num", v |-> "1"]
JArr == [t |-> "arr", v |-> "[]"]

\* The `statuses` arrays the backend answers with.
StatusLists == {<<>>, <<ObjA>>, <<ObjA, ObjB>>}

\* The values of `bots_running` in a status body: a boolean, JSON null, or
\* the field missing (undefined).
BotsVals == {"true", "false", "null", "undefined"}

\* What response.json() yields for GET /api/status:
\*   shape "badjson" : the promise rejects (body is not JSON)
\*   shape "null"    : the JSON value null
\*   shape "object"  : an object; hasArr says whether `statuses` is an array
StatusBodies ==
    {[shape |-> "badjson", hasArr |-> FALSE, statuses |-> <<>>, bots_running |-> "undefined"],
     [shape |-> "null", hasArr |-> FALSE, statuses |-> <<>>, bots_running |-> "undefined"]}
    \cup {[shape |-> "object", hasArr |-> FALSE, statuses |-> <<>>, bots_running |-> b] :
             b \in BotsVals}
    \cup {[shape |-> "object", hasArr |-> TRUE, statuses |-> s, bots_running |-> b] :
             s \in StatusLists, b \in BotsVals}

\* The bodies a poll is answered with.  fetchData never reads bots_running,
\* so two of its values stand for all.
PollBodies ==
    {b \in StatusBodies : b.shape = "object" => b.bots_running \in {"true", "false"}}

\* The bodies of a command response (POST /api/start_bots, /api/shutdown):
\* not JSON, JSON null, an object with an `error` field, any other object.
CmdBodies == {"badjson", "null", "error", "object"}

\* ------------------------------------------------- localStorage slot (text)
\* The slot 'botStatusesCache': absent, or a text.  A text is garbage (not
\* JSON), JSON of a non-array, or JSON of an array with the given items.
SlotAbsent == [kind |-> "absent", isArray |-> FALSE, items |-> <<>>]
SlotGarbage == [kind |-> "garbage", isArray |-> FALSE, items |-> <<>>]
SlotNonArray == [kind |-> "json", isArray |-> FALSE, items |-> <<>>]
SlotEmptyText == [kind |-> "empty", isArray |-> FALSE, items |-> <<>>]

\* JSON.stringify of an array.
Stringify(s) == [kind |-> "json", isArray |-> TRUE, items |-> s]

\* What a previous session may have left in the slot.
InitialSlots == {SlotAbsent, SlotGarbage, Stringify(<<JNull, ObjB>>)}

\* Every slot the initializer of `statuses` tells apart: absent, the empty
\* text, not JSON, JSON of a non-array, and arrays that are empty, of
\* objects only, or hold a null, a number or a nested array.
MountSlots ==
    {SlotAbsent, SlotEmptyText, SlotGarbage, SlotNonArray, Stringify(<<>>),
     Stringify(<<ObjA, ObjB>>), Stringify(<<JNull, ObjB>>), Stringify(<<ObjA, JNum, JArr>>)}

\* typeof item
typeof(item) == IF item.t \in {"obj", "arr", "null"} THEN "object" ELSE "number"

\* rawParsed.filter(item => item !== null && typeof item === 'object')
RECURSIVE FilterObjects(_)
FilterObjects(s) ==
    IF s = <<>> THEN <<>>
    ELSE IF Head(s) # JNull /\ typeof(Head(s)) = "object"
         THEN <<Head(s)>> \o FilterObjects(Tail(s))
         ELSE FilterObjects(Tail(s))

\* Faulty variant of Rehydrate: an array with an element that is not an
\* object is dropped whole.
RehydrateAllOrNothing(slot) ==
    IF slot.kind = "json" /\ slot.isArray /\ FilterObjects(slot.items) = slot.items
    THEN slot.items ELSE <<>>

\* The initializer of the `statuses` state: the cached array, filtered; the
\* empty array when the slot is absent, unparseable or not an array.
Rehydrate(slot) ==
    IF slot.kind = "json" /\ slot.isArray THEN FilterObjects(slot.items) ELSE <<>>

\* The message fetchData's catch puts in `error`; "null" is no error.
ErrNull == "null"
ErrMsg == "Bot apagado o API no disponible. Mostrando ultimos datos conocidos."

\* ------------------------------------------------- ConfigForm: JS values
\* A JavaScript value of a form field, a JSON value of the backend, or a
\* value of a payload: tag t, number n (in units of 1/Scale; 0 when t is not
\* "num" or "bool"), string s as a sequence of characters (empty when t is
\* not "str").
Scale == 10

Num(n) == [t |-> "num", n |-> n, s |-> <<>>]
Whole(k) == Num(k * Scale)
Str(s) == [t |-> "str", n |-> 0, s |-> s]
Bool(b) == [t |-> "bool", n |-> IF b THEN 1 ELSE 0, s |-> <<>>]
NaN == [t |-> "nan", n |-> 0, s |-> <<>>]
Null == [t |-> "null", n |-> 0, s |-> <<>>]
Undefined == [t |-> "undef", n |-> 0, s |-> <<>>]
Empty == Str(<<>>)
Dash == Str(<<"-">>)

Digits == <<"0", "1", "2", "3", "4", "5", "6", "7", "8", "9">>
IsDigit(c) == \E i \in 1..Len(Digits) : Digits[i] = c
DigitVal(c) == (CHOOSE i \in 1..Len(Digits) : Digits[i] = c) - 1
AllDigits(s) == \A i \in 1..Len(s) : IsDigit(s[i])

RECURSIVE DigitsValue(_)
DigitsValue(s) ==
    IF s = <<>> THEN 0
    ELSE DigitsValue(SubSeq(s, 1, Len(s) - 1)) * 10 + DigitVal(s[Len(s)])

\* String.prototype.trim
RECURSIVE TrimStart(_)
TrimStart(s) == IF s # <<>> /\ s[1] = " " THEN TrimStart(Tail(s)) ELSE s
RECURSIVE TrimEnd(_)
TrimEnd(s) ==
    IF s # <<>> /\ s[Len(s)] = " " THEN TrimEnd(SubSeq(s, 1, Len(s) - 1)) ELSE s
trim(s) == TrimEnd(TrimStart(s))

Count(s, c) == Cardinality({i \in 1..Len(s) : s[i] = c})
IndexOf(s, c) == CHOOSE i \in 1..Len(s) : s[i] = c /\ \A j \in 1..(i - 1) : s[j] # c

\* The digits after the point, in units of 1/Scale (one digit is kept: the
\* numerals of this model have at most one).
Fraction(fp) == IF fp = <<>> THEN 0 ELSE DigitVal(fp[1])

\* Number(string): white space is trimmed, '' is 0, then an optional sign,
\* digits, an optional point and digits, with at least one digit; anything
\* else is NaN.  (Exponents, hexadecimal numerals and Infinity are not
\* written with the characters of this model.)
StringToNumber(str) ==
    LET t == trim(str)
        signed == t # <<>> /\ t[1] \in {"-", "+"}
        body == IF signed THEN Tail(t) ELSE t
        hasDot == Count(body, ".") > 0
        ip == IF hasDot THEN SubSeq(body, 1, IndexOf(body, ".") - 1) ELSE body
        fp == IF hasDot THEN SubSeq(body, IndexOf(body, ".") + 1, Len(body)) ELSE <<>>
        abs == DigitsValue(ip) * Scale + Fraction(fp)
    IN  IF t = <<>> THEN Num(0)
        ELSE IF AllDigits(ip) /\ AllDigits(fp) /\ Len(ip) + Len(fp) > 0
             THEN Num(IF t[1] = "-" THEN 0 - abs ELSE abs)
             ELSE NaN

\* Number(value)
Number(value) ==
    CASE value.t = "num" -> value
      [] value.t = "str" -> StringToNumber(value.s)
      [] value.t = "bool" -> Num(value.n * Scale)
      [] value.t = "null" -> Num(0)
      [] OTHER -> NaN

\* Number.isInteger(value)
IsInteger(value) == value.t = "num" /\ value.n % Scale = 0

\* Faulty variant of parseValue: a stop loss is sent with its sign changed.
parseValueNegates(value, defaultValue, name) ==
    IF value = Empty \/ value.t \in {"null", "undef"} THEN defaultValue
    ELSE IF name \in {"stopLossUSDT", "rsiThresholdDown"} /\ value = Dash THEN Dash
    ELSE IF Number(value).t = "nan" THEN defaultValue
    ELSE IF name = "stopLossUSDT" THEN Num(0 - Number(value).n)
    ELSE Number(value)

\* parseValue: the out-of-domain branches only log a warning.
parseValue(value, defaultValue, name) ==
    IF value = Empty \/ value.t \in {"null", "undef"} THEN defaultValue
    ELSE IF name \in {"stopLossUSDT", "rsiThresholdDown"} /\ value = Dash THEN Dash
    ELSE IF Number(value).t # "nan" THEN Number(value) ELSE defaultValue

\* ------------------------------------------------ ConfigForm: the fields
Fields ==
    {"apiKey", "apiSecret", "symbolsToTrade", "rsiInterval", "rsiPeriod",
     "rsiThresholdUp", "rsiThresholdDown", "rsiEntryLevelLow", "volumeSmaPeriod",
     "volumeFactor", "positionSizeUSDT", "stopLossUSDT", "takeProfitUSDT",
     "cycleSleepSeconds", "mode", "active", "orderTimeoutSeconds"}

numericTextFields ==
    {"rsiThresholdUp", "rsiThresholdDown", "rsiEntryLevelLow", "volumeFactor",
     "positionSizeUSDT", "stopLossUSDT", "takeProfitUSDT"}

integerNumberFields ==
    {"rsiPeriod", "volumeSmaPeriod", "cycleSleepSeconds", "orderTimeoutSeconds"}

NumericFields == numericTextFields \cup integerNumberFields

initialConfig ==
    [apiKey |-> Empty, apiSecret |-> Empty, symbolsToTrade |-> Empty,
     rsiInterval |-> Str(<<"5", "m">>), rsiPeriod |-> Whole(14),
     rsiThresholdUp |-> Whole(8), rsiThresholdDown |-> Whole(0 - 8),
     rsiEntryLevelLow |-> Whole(25), volumeSmaPeriod |-> Whole(20),
     volumeFactor |-> Num(15), positionSizeUSDT |-> Whole(50),
     stopLossUSDT |-> Whole(20), takeProfitUSDT |-> Whole(30),
     cycleSleepSeconds |-> Whole(0), mode |-> Str(<<"p", "a", "p", "e", "r">>),
     active |-> Bool(FALSE), orderTimeoutSeconds |-> Whole(60)]

\* ------------------------------------------------ ConfigForm.handleChange
\* /^-?\d*\.?\d*$/.test(val)
RegexNumeric(val) ==
    LET body == IF val # <<>> /\ val[1] = "-" THEN Tail(val) ELSE val
    IN  /\ \A i \in 1..Len(body) : IsDigit(body[i]) \/ body[i] = "."
        /\ Count(body, ".") <= 1

\* isValidNumericString of handleChange, for the field `name`
isValidNumericString(name, val) ==
    \/ val = <<>>
    \/ name \in {"rsiThresholdDown", "stopLossUSDT"} /\ val = <<"-">>
    \/ /\ RegexNumeric(val)
       /\ Count(val, ".") <= 1
       /\ Count(val, "-") <= (IF val # <<>> /\ val[1] = "-" THEN 1 ELSE 0)

\* num < bound, for a JS number num (false for NaN)
LessThan(num, bound) == num.t = "num" /\ num.n < bound * Scale

\* The value handleChange stores for an event on the input `name` with
\* e.target.value = value, type and checked.
processedValue(cfg, name, value, type, checked) ==
    IF type = "checkbox" THEN Bool(checked)
    ELSE IF name \in numericTextFields
    THEN IF isValidNumericString(name, value.s) THEN value ELSE cfg[name]
    ELSE IF name \in integerNumberFields
    THEN IF value = Empty THEN Empty
         ELSE IF name = "cycleSleepSeconds" /\ Number(value) # Whole(0)
                 /\ LessThan(Number(value), 5) /\ value # Empty
              THEN Number(value)
              ELSE IF IsInteger(Number(value)) THEN Number(value) ELSE cfg[name]
    ELSE value

\* Faulty variant of handleChange: the updater does not spread prevConfig.
handleChangeResets(cfg, name, value, type, checked) ==
    [initialConfig EXCEPT ![name] = processedValue(cfg, name, value, type, checked)]

handleChange(cfg, name, value, type, checked) ==
    [cfg EXCEPT ![name] = processedValue(cfg, name, value, type, checked)]

\* ------------------------------------------------ ConfigForm.handleSubmit
Lower == <<"a", "d", "e", "h", "s", "t", "u">>
Upper == <<"A", "D", "E", "H", "S", "T", "U">>

\* String.prototype.toUpperCase on the letters of this model
UpperChar(c) ==
    IF \E i \in 1..Len(Lower) : Lower[i] = c
    THEN Upper[CHOOSE i \in 1..Len(Lower) : Lower[i] = c]
    ELSE c
toUpperCase(s) == [i \in 1..Len(s) |-> UpperChar(s[i])]

\* s.split(',')
RECURSIVE split(_)
split(s) ==
    IF Count(s, ",") = 0 THEN <<s>>
    ELSE <<SubSeq(s, 1, IndexOf(s, ",") - 1)>>
             \o split(SubSeq(s, IndexOf(s, ",") + 1, Len(s)))

\* list.filter(s => s)
RECURSIVE filterNonEmpty(_)
filterNonEmpty(list) ==
    IF list = <<>> THEN <<>>
    ELSE (IF Head(list) # <<>> THEN <<Head(list)>> ELSE <<>>) \o filterNonEmpty(Tail(list))

\* list.join(',')
RECURSIVE join(_)
join(list) ==
    IF list = <<>> THEN <<>>
    ELSE IF Len(list) = 1 THEN list[1]
    ELSE list[1] \o <<",">> \o join(Tail(list))

\* list with every later occurrence of an element removed
RECURSIVE dedupe(_)
dedupe(list) ==
    IF list = <<>> THEN <<>>
    ELSE LET front == dedupe(SubSeq(list, 1, Len(list) - 1))
             x == list[Len(list)]
         IN  IF \E i \in 1..Len(front) : front[i] = x THEN front ELSE Append(front, x)

\* Faulty variant of symbolsList: a symbol is kept once.
symbolsListDeduped(symbolsRaw) ==
    LET parts == split(symbolsRaw)
    IN  dedupe(filterNonEmpty([i \in 1..Len(parts) |-> toUpperCase(trim(parts[i]))]))

\* Faulty variant of symbolsList: the blanks are kept.
symbolsListKeepBlanks(symbolsRaw) ==
    LET parts == split(symbolsRaw)
    IN  [i \in 1..Len(parts) |-> toUpperCase(trim(parts[i]))]

\* symbolsRaw.split(',').map(s => s.trim().toUpperCase()).filter(s => s)
symbolsList(symbolsRaw) ==
    LET parts == split(symbolsRaw)
    IN  filterNonEmpty([i \in 1..Len(parts) |-> toUpperCase(trim(parts[i]))])

\* value is falsy (the left operand of `||` is replaced)
Falsy(value) ==
    \/ value.t \in {"undef", "null", "nan"}
    \/ value = Empty
    \/ value.t \in {"num", "bool"} /\ value.n = 0

OrElse(value, other) == IF Falsy(value) THEN other ELSE value

\* cleanSymbolsString of handleSubmit
cleanSymbolsString(cfg) == Str(join(symbolsList(OrElse(cfg.symbolsToTrade, Empty).s)))

PayloadFields == Fields \ {"active"}

\* configToSend of handleSubmit
configToSend(cfg) ==
    [f \in PayloadFields |->
        IF f = "symbolsToTrade" THEN cleanSymbolsString(cfg)
        ELSE IF f \in NumericFields THEN parseValue(cfg[f], initialConfig[f], f)
        ELSE cfg[f]]

\* The updater handleSubmit passes to setConfig, applied to prev
submittedState(prev, cfg) ==
    [f \in Fields |-> IF f = "active" THEN prev.active ELSE configToSend(cfg)[f]]

\* ------------------------------------------------ ConfigForm.fetchConfig
\* frontendState of fetchConfig, for the parsed body backendConfig (flat:
\* field f holds backendConfig.<SECTION>?.<key of f>, Undefined when the
\* section or the key is missing); `config.active` is the state captured at
\* mount.
frontendState(backendConfig) ==
    [f \in Fields |->
        IF f = "active" THEN initialConfig.active
        ELSE IF f \in NumericFields THEN parseValue(backendConfig[f], initialConfig[f], f)
        ELSE OrElse(backendConfig[f], initialConfig[f])]

\* An object with no section and no key.
NoBody == [f \in PayloadFields |-> Undefined]

\* ------------------------------------------------ the form's constraints
\* The browser submits the form (and calls handleSubmit) only when every
\* control satisfies its attributes: `required`, and `min`/`step` of the
\* type="number" inputs.
requiredFields ==
    {"apiKey", "apiSecret", "symbolsToTrade", "rsiInterval", "rsiPeriod",
     "rsiThresholdUp", "rsiThresholdDown", "positionSizeUSDT", "mode"}

\* min of the type="number" inputs (step is 1 for all four)
MinOf(f) ==
    CASE f = "rsiPeriod" -> 2
      [] f = "volumeSmaPeriod" -> 1
      [] OTHER -> 0

controlValid(cfg, f) ==
    /\ f \in requiredFields => cfg[f] # Empty
    /\ f \in integerNumberFields =>
          \/ cfg[f] = Empty
          \/ IsInteger(cfg[f]) /\ cfg[f].n >= MinOf(f) * Scale

checkValidity(cfg) == \A f \in Fields : controlValid(cfg, f)

VARIABLES
    \* --- App
    initPc,               \* fetchInitialData: "config", "configJson", "status", "statusJson", "done"
    config,               \* "null" or "loaded"
    botsRunning,          \* "null" (unknown), "true", "false", "undefined"
    initialLoadingError,  \* BOOLEAN: the error banner replaces form and status
    \* --- StatusDisplay
    mounted,              \* BOOLEAN: StatusDisplay (and BotControls) is rendered
    timer,                \* BOOLEAN: the setInterval of the effect is active
    statuses,             \* the `statuses` state (the exposed snapshot)
    closureStatuses,      \* `statuses` as captured by fetchData at mount
    error,                \* the `error` state
    cache,                \* the localStorage slot
    polls,                \* outstanding fetchData calls, in issue order
    \* --- BotControls
    isActionPending,      \* BOOLEAN
    actionMessage,        \* the message under the buttons
    msgTimers,            \* pending setTimeout(() => setActionMessage(''))
    cmds,                 \* outstanding command calls, in issue order
    \* --- ConfigForm
    formMounted,          \* BOOLEAN: ConfigForm is rendered
    formDelta,            \* the `config` state of the form, held as the fields that
                          \* differ from initialConfig (see formConfig)
    message,              \* the `message` state, held as the name of its text (see TextOf)
    isLoading,            \* the `isLoading` state
    loadPc,               \* fetchConfig: "idle", "fetch", "json", "done"
    saves,                \* outstanding handleSubmit calls: [phase, payload]
    formTimers,           \* pending setTimeout(() => setMessage(''))
    edited,               \* the inputs the operator has changed (history)
    \* --- history (not program state)
    last,                 \* the step just taken: [op, out, body, ret]
    loadedBody,           \* <<the object fetchConfig parsed last>>, <<>> before
    statusSucceeded,      \* some GET /api/status was answered 2xx
    lastPoll,             \* outcome of the poll completed last: "none", "ok", "malformed", "failed"
    lastGood              \* statuses of the last poll that returned an array

vars == <<initPc, config, botsRunning, initialLoadingError, mounted, timer, statuses,
          closureStatuses, error, cache, polls, isActionPending, actionMessage,
          msgTimers, cmds, formMounted, formDelta, message, isLoading, loadPc,
          saves, formTimers, edited, last, loadedBody, statusSucceeded, lastPoll,
          lastGood>>

appVars == <<initPc, config, botsRunning, initialLoadingError>>
mountVars == <<mounted, timer>>
pollState == <<statuses, closureStatuses, error, cache>>
pollHist == <<lastPoll, lastGood>>
ctlVars == <<isActionPending, actionMessage, msgTimers, cmds>>
formVars == <<formMounted, formDelta, message, isLoading, loadPc, saves, formTimers,
              edited, loadedBody>>

\* The `config` state of the form is an object with every key of
\* initialConfig; the state holds the keys whose value is not the one of
\* initialConfig, and formConfig is the whole object.
Sparse(cfg) == [f \in {g \in Fields : cfg[g] # initialConfig[g]} |-> cfg[f]]

Full(delta) == [f \in Fields |-> IF f \in DOMAIN delta THEN delta[f] ELSE initialConfig[f]]

formConfig == Full(formDelta)

Step(op, out, body, ret) == [op |-> op, out |-> out, body |-> body, ret |-> ret]

RemoveAt(s, i) == SubSeq(s, 1, i - 1) \o SubSeq(s, i + 1, Len(s))

\* -------------------------------------------------------------------- Init
\* The state after the first render and its effects: fetchInitialData has
\* issued GET /api/config, StatusDisplay has rehydrated `statuses` from the
\* slot, issued its first poll and started the interval.
InitFrom(slots) ==
    /\ initPc = "config"
    /\ config = "null"
    /\ botsRunning = "null"
    /\ initialLoadingError = FALSE
    /\ mounted = TRUE
    /\ timer = TRUE
    /\ cache \in slots
    /\ statuses = Rehydrate(cache)
    /\ closureStatuses = statuses
    /\ error = ErrNull
    /\ polls = <<"fetch">>
    /\ isActionPending = FALSE
    /\ actionMessage = ""
    /\ msgTimers = 0
    /\ cmds = <<>>
    /\ formMounted = FALSE
    /\ formDelta = Sparse(initialConfig)
    /\ message = ""
    /\ isLoading = TRUE
    /\ loadPc = "idle"
    /\ saves = <<>>
    /\ formTimers = 0
    /\ edited = {}
    /\ loadedBody = <<>>
    /\ last = Step("mount", "none", "none", "none")
    /\ statusSucceeded = FALSE
    /\ lastPoll = "none"
    /\ lastGood = [some |-> FALSE, s |-> <<>>]

Init == InitFrom(InitialSlots)

\* ----------------------------------------------------- StatusDisplay polls
\* A state setter of StatusDisplay acts only while the component is mounted.
SetIfMounted(new, old) == IF mounted THEN new ELSE old

\* The timer fires (or the view was just mounted): fetchData issues its fetch.
Tick ==
    /\ timer
    /\ Len(polls) < MaxInFlight
    /\ polls' = Append(polls, "fetch")
    /\ last' = Step("tick", "none", "none", "none")
    /\ UNCHANGED <<appVars, mountVars, pollState, pollHist, ctlVars, formVars,
                   statusSucceeded>>

\* Faulty variant of PollCatch: the catch also blanks the snapshot (setStatuses([])).
PollCatchBlank ==
    /\ error' = SetIfMounted(ErrMsg, error)
    /\ statuses' = SetIfMounted(<<>>, statuses)
    /\ UNCHANGED <<cache, botsRunning>>

\* catch (e): setError(message); the snapshot and the slot are not touched.
PollCatch ==
    /\ error' = SetIfMounted(ErrMsg, error)
    /\ UNCHANGED <<statuses, cache, botsRunning>>

\* Faulty variant of PollSuccess: the slot is never written.
PollSuccessNoCache(body, writeOk) ==
    /\ statuses' = SetIfMounted(body.statuses, statuses)
    /\ error' = SetIfMounted(ErrNull, error)
    /\ UNCHANGED <<cache, botsRunning>>

\* Faulty variant of PollSuccess: every poll also copies bots_running into the belief.
PollSuccessSync(body, writeOk) ==
    /\ statuses' = SetIfMounted(body.statuses, statuses)
    /\ cache' = IF writeOk THEN Stringify(body.statuses) ELSE cache
    /\ error' = SetIfMounted(ErrNull, error)
    /\ botsRunning' = body.bots_running

\* data.statuses is an array: setStatuses, localStorage.setItem inside its own
\* try (writeOk: setItem did not throw), setError(null).
PollSuccess(body, writeOk) ==
    /\ statuses' = SetIfMounted(body.statuses, statuses)
    /\ cache' = IF writeOk THEN Stringify(body.statuses) ELSE cache
    /\ error' = SetIfMounted(ErrNull, error)
    /\ UNCHANGED botsRunning

\* No array `statuses`: setStatuses([]) if the `statuses` captured by the
\* closure at mount is empty; setError(null).
PollMalformed ==
    /\ statuses' = SetIfMounted(IF Len(closureStatuses) = 0 THEN <<>> ELSE statuses, statuses)
    /\ error' = SetIfMounted(ErrNull, error)
    /\ UNCHANGED <<cache, botsRunning>>

\* The bookkeeping common to every completion of poll i; `reported` is the
\* bots_running of the body, when there is one.  polls is in the order of
\* issue, so i - 1 polls issued before this one are still outstanding
\* (recorded for the polls that wrote the slot).
PollDone(i, out, reported) ==
    /\ polls' = RemoveAt(polls, i)
    /\ last' = Step("poll", out, reported, IF out = "ok" THEN i - 1 ELSE "none")
    /\ lastPoll' = IF out \in {"ok", "okNoWrite"} THEN "ok"
                   ELSE IF out = "malformed" THEN "malformed" ELSE "failed"
    /\ UNCHANGED <<initPc, config, initialLoadingError, mountVars, closureStatuses,
                   ctlVars, formVars>>

\* await fetch('/api/status') of poll i settles: it rejects (network), or
\* resolves with a 2xx or a non-2xx response, whose body is read next.
PollResponds(i) ==
    /\ i \in 1..Len(polls)
    /\ polls[i] = "fetch"
    /\ \/ /\ PollCatch
          /\ PollDone(i, "reject", "none")
          /\ UNCHANGED <<lastGood, statusSucceeded>>
       \/ /\ \E ok \in BOOLEAN :
                /\ polls' = [polls EXCEPT ![i] = IF ok THEN "json_ok" ELSE "json_err"]
                /\ statusSucceeded' = (statusSucceeded \/ ok)
          /\ last' = Step("pollResponse", "none", "none", "none")
          /\ UNCHANGED <<appVars, mountVars, pollState, pollHist, ctlVars, formVars>>

\* Non-2xx: await response.json() settles either way (its failure is
\* ignored), then the error is thrown to the catch.
PollErrorBody(i) ==
    /\ i \in 1..Len(polls)
    /\ polls[i] = "json_err"
    /\ PollCatch
    /\ PollDone(i, "non2xx", "none")
    /\ UNCHANGED <<lastGood, statusSucceeded>>

\* 2xx: await response.json() settles with the body.
PollParsed(i) ==
    /\ i \in 1..Len(polls)
    /\ polls[i] = "json_ok"
    /\ UNCHANGED statusSucceeded
    /\ \E body \in PollBodies :
          \/ /\ body.shape = "badjson"
             /\ PollCatch
             /\ PollDone(i, "badjson", "none")
             /\ UNCHANGED lastGood
          \/ /\ body.shape = "object" /\ body.hasArr
             /\ \E writeOk \in BOOLEAN :
                   /\ PollSuccess(body, writeOk)
                   /\ PollDone(i, IF writeOk THEN "ok" ELSE "okNoWrite", body.bots_running)
             /\ lastGood' = [some |-> TRUE, s |-> body.statuses]
          \/ /\ body.shape = "null" \/ (body.shape = "object" /\ ~body.hasArr)
             /\ PollMalformed
             /\ PollDone(i, "malformed", body.bots_running)
             /\ UNCHANGED lastGood

\* ------------------------------------------------- App: fetchInitialData
\* Faulty variant of InitCatch: the failure is only logged, the view stays.
InitCatchKeepsView ==
    UNCHANGED <<config, botsRunning, initialLoadingError, mountVars, formVars>>

\* Faulty variant of InitCatch: the effect of StatusDisplay has no cleanup,
\* the interval outlives the view.
InitCatchLeaksTimer ==
    /\ initialLoadingError' = TRUE
    /\ config' = "null"
    /\ botsRunning' = "false"
    /\ mounted' = FALSE
    /\ formMounted' = FALSE
    /\ UNCHANGED <<timer, formDelta, message, isLoading, loadPc, saves, formTimers, edited,
                   loadedBody>>

\* catch (error): setInitialLoadingError, setConfig(null), setBotsRunning(false).
\* The render that follows shows the error banner instead of the form and
\* StatusDisplay: StatusDisplay unmounts and its cleanup clears the interval.
InitCatch ==
    /\ initialLoadingError' = TRUE
    /\ config' = "null"
    /\ botsRunning' = "false"
    /\ mounted' = FALSE
    /\ timer' = FALSE
    /\ formMounted' = FALSE
    /\ UNCHANGED <<formDelta, message, isLoading, loadPc, saves, formTimers, edited,
                   loadedBody>>

\* The status response is not ok: setBotsRunning(false), nothing is thrown.
InitStatusNotOk ==
    /\ botsRunning' = "false"
    /\ UNCHANGED <<config, initialLoadingError, mountVars, formVars>>

\* setBotsRunning(statusData.bots_running)
InitSeed(body) ==
    /\ botsRunning' = body.bots_running
    /\ UNCHANGED <<config, initialLoadingError, mountVars, formVars>>

InitFrame == UNCHANGED <<pollState, polls, pollHist, ctlVars>>

\* await fetch('/api/config') settles.
InitConfigResponds ==
    /\ initPc = "config"
    /\ InitFrame
    /\ UNCHANGED statusSucceeded
    /\ \E out \in {"reject", "non2xx", "2xx"} :
          /\ last' = Step("initConfig", out, "none", "none")
          /\ IF out = "2xx"
             THEN /\ initPc' = "configJson"
                  /\ UNCHANGED <<config, botsRunning, initialLoadingError, mountVars,
                                 formVars>>
             ELSE /\ initPc' = "done"
                  /\ InitCatch

\* Characters of a text: the messages of the form are sequences of
\* characters, so that message.includes(...) is computed on them.
Guardando == <<"G", "u", "a", "r", "d", "a", "n", "d", "o">>
Configuracion == <<"c", "o", "n", "f", "i", "g", "u", "r", "a", "c", "i", "o", "n">>
Dots == <<".", ".", ".">>
MsgLoading == <<"C", "a", "r", "g", "a", "n", "d", "o", " ">> \o Configuracion \o Dots
MsgLoaded == <<"C">> \o Tail(Configuracion) \o <<" ", "c", "a", "r", "g", "a", "d", "a", ".">>
MsgLoadError == <<"E", "r", "r", "o", "r", " ", "a", "l", " ", "c", "a", "r", "g", "a", "r">>
MsgSaving == Guardando \o <<" ">> \o Configuracion \o Dots
MsgSaved == <<"C">> \o Tail(Configuracion) \o <<" ", "g", "u", "a", "r", "d", "a", "d", "a">>
MsgServer == <<"O", "K">>
MsgSaveError == <<"E", "r", "r", "o", "r", " ", "a", "l", " ", "g", "u", "a", "r", "d", "a", "r">>

\* The text of the message the state names.
TextOf(m) ==
    CASE m = "loading" -> MsgLoading
      [] m = "loaded" -> MsgLoaded
      [] m = "loadError" -> MsgLoadError
      [] m = "saving" -> MsgSaving
      [] m = "saved" -> MsgSaved
      [] m = "server" -> MsgServer
      [] m = "saveError" -> MsgSaveError
      [] OTHER -> <<>>

\* ConfigForm is rendered for the first time (App's config became truthy):
\* its effect runs fetchConfig up to the await of the fetch.
FormMount ==
    /\ formMounted' = TRUE
    /\ message' = "loading"
    /\ isLoading' = TRUE
    /\ loadPc' = "fetch"
    /\ UNCHANGED <<formDelta, saves, formTimers, edited, loadedBody>>

\* await configResponse.json() settles; reading configData.SYMBOLS of null
\* throws.  Otherwise setConfig(flatConfig) and the status fetch is issued.
InitConfigParsed ==
    /\ initPc = "configJson"
    /\ InitFrame
    /\ UNCHANGED statusSucceeded
    /\ \E body \in {"badjson", "null", "object"} :
          /\ last' = Step("initConfigBody", "2xx", body, "none")
          /\ IF body = "object"
             THEN /\ initPc' = "status"
                  /\ config' = "loaded"
                  /\ FormMount
                  /\ UNCHANGED <<botsRunning, initialLoadingError, mountVars>>
             ELSE /\ initPc' = "done"
                  /\ InitCatch

\* await fetch('/api/status') of fetchInitialData settles.
InitStatusResponds ==
    /\ initPc = "status"
    /\ InitFrame
    /\ \E out \in {"reject", "non2xx", "2xx"} :
          /\ last' = Step("initStatus", out, "none", "none")
          /\ statusSucceeded' = (statusSucceeded \/ out = "2xx")
          /\ CASE out = "2xx" ->
                    /\ initPc' = "statusJson"
                    /\ UNCHANGED <<config, botsRunning, initialLoadingError, mountVars,
                                   formVars>>
               [] out = "non2xx" ->
                    /\ initPc' = "done"
                    /\ InitStatusNotOk
               [] OTHER ->
                    /\ initPc' = "done"
                    /\ InitCatch

\* await statusResponse.json() settles; statusData.bots_running of null throws.
InitStatusParsed ==
    /\ initPc = "statusJson"
    /\ InitFrame
    /\ UNCHANGED statusSucceeded
    /\ initPc' = "done"
    /\ \E body \in StatusBodies :
          /\ last' = Step("initStatusBody", "2xx", body.shape, "none")
          /\ IF body.shape = "object" THEN InitSeed(body) ELSE InitCatch

\* ---------------------------------------------------- BotControls and App
\* Faulty variant of startDisabled: the pending flag is not consulted.
startDisabledNoPending == botsRunning = "null" \/ botsRunning = "true"

\* Faulty variant of startDisabled: an unknown belief does not disable.
startDisabledNoNull == botsRunning = "true" \/ isActionPending

\* botsRunning === null || botsRunning === true || isActionPending
startDisabled == botsRunning = "null" \/ botsRunning = "true" \/ isActionPending

\* botsRunning === null || botsRunning === false || isActionPending
shutdownDisabled == botsRunning = "null" \/ botsRunning = "false" \/ isActionPending

MsgStarting == "Iniciando bots..."
MsgStartError == "Error al iniciar bots. Revisa los logs del servidor."
MsgStopping == "Enviando senal de apagado..."
MsgStopError == "Error al enviar senal de apagado. Revisa los logs."
MsgStopRequested == "Apagado solicitado."

CmdFrame == UNCHANGED <<initPc, config, initialLoadingError, mountVars, pollState, polls,
                        pollHist, formVars, statusSucceeded>>

\* handleStartClick up to its await: the pending flag, the message, and
\* handleStartBots issues POST /api/start_bots.
StartClick ==
    /\ mounted
    /\ ~startDisabled
    /\ msgTimers < MaxTimers
    /\ isActionPending' = TRUE
    /\ actionMessage' = MsgStarting
    /\ cmds' = Append(cmds, [op |-> "start", phase |-> "fetch"])
    /\ last' = Step("startClick", "none", "none", "none")
    /\ UNCHANGED <<botsRunning, msgTimers>>
    /\ CmdFrame

\* Faulty variant of ShutdownClick: the pending flag and the message are
\* set before the confirmation is asked.
ShutdownClickFlagsFirst ==
    /\ mounted
    /\ ~shutdownDisabled
    /\ msgTimers < MaxTimers
    /\ CmdFrame
    /\ UNCHANGED <<botsRunning, msgTimers>>
    /\ isActionPending' = TRUE
    /\ actionMessage' = MsgStopping
    /\ \E confirmed \in BOOLEAN :
          IF confirmed
          THEN /\ cmds' = Append(cmds, [op |-> "shutdown", phase |-> "fetch"])
               /\ last' = Step("shutdownClick", "confirmed", "none", "none")
          ELSE /\ UNCHANGED cmds
               /\ last' = Step("shutdownClick", "declined", "none", "none")

\* handleShutdownClick up to its await; a declined window.confirm returns
\* at once.
ShutdownClick ==
    /\ mounted
    /\ ~shutdownDisabled
    /\ msgTimers < MaxTimers
    /\ CmdFrame
    /\ UNCHANGED <<botsRunning, msgTimers>>
    /\ \E confirmed \in BOOLEAN :
          IF confirmed
          THEN /\ isActionPending' = TRUE
               /\ actionMessage' = MsgStopping
               /\ cmds' = Append(cmds, [op |-> "shutdown", phase |-> "fetch"])
               /\ last' = Step("shutdownClick", "confirmed", "none", "none")
          ELSE /\ UNCHANGED <<isActionPending, actionMessage, cmds>>
               /\ last' = Step("shutdownClick", "declined", "none", "none")

\* The fetch of command i settles with a response: its body is read next
\* (`await response.json()` comes before the test of response.ok).
CmdResponds(i) ==
    /\ i \in 1..Len(cmds)
    /\ cmds[i].phase = "fetch"
    /\ \E ok \in BOOLEAN :
          cmds' = [cmds EXCEPT ![i].phase = IF ok THEN "json_ok" ELSE "json_err"]
    /\ last' = Step("cmdResponse", "none", "none", "none")
    /\ UNCHANGED <<botsRunning, isActionPending, actionMessage, msgTimers>>
    /\ CmdFrame

\* Faulty variant of handleStartBots: response.ok is not tested.
handleStartBotsNoOkTest(out, body) ==
    IF out = "reject" \/ body = "badjson" THEN [belief |-> "false", ret |-> FALSE]
    ELSE [belief |-> "true", ret |-> TRUE]

\* handleStartBots from the settled request on: out is "reject" (the fetch
\* rejected; no body), "2xx" or "non2xx".  The belief it sets and the value
\* it returns.  A body that is not JSON, and `data.error` of null on the
\* non-ok path, throw into the catch.
handleStartBots(out, body) ==
    IF out = "reject" \/ body = "badjson" THEN [belief |-> "false", ret |-> FALSE]
    ELSE IF out = "non2xx" THEN [belief |-> "false", ret |-> FALSE]
    ELSE [belief |-> "true", ret |-> TRUE]

\* Faulty variant of handleShutdown: the catch does not call setBotsRunning(false).
handleShutdownCatchKeeps(out, body) ==
    IF out = "reject" \/ body = "badjson" THEN [belief |-> botsRunning, ret |-> FALSE]
    ELSE [belief |-> "false", ret |-> TRUE]

\* handleShutdown from the settled request on.  A non-ok response is only
\* logged; a body that is not JSON throws into the catch.
handleShutdown(out, body) ==
    IF out = "reject" \/ body = "badjson" THEN [belief |-> "false", ret |-> FALSE]
    ELSE [belief |-> "false", ret |-> TRUE]

\* Faulty variant of StartClickResume: the pending flag is cleared on
\* success only.
StartClickResumeStuck(success) ==
    /\ actionMessage' = IF success THEN "" ELSE MsgStartError
    /\ msgTimers' = IF success THEN msgTimers ELSE msgTimers + 1
    /\ isActionPending' = ~success

\* handleStartClick after its await: the message (with its 5 s timer on
\* failure) and the pending flag.
StartClickResume(success) ==
    /\ actionMessage' = IF success THEN "" ELSE MsgStartError
    /\ msgTimers' = IF success THEN msgTimers ELSE msgTimers + 1
    /\ isActionPending' = FALSE

\* handleShutdownClick after its await: either message has a timer.
ShutdownClickResume(success) ==
    /\ actionMessage' = IF success THEN MsgStopRequested ELSE MsgStopError
    /\ msgTimers' = msgTimers + 1
    /\ isActionPending' = FALSE

BoolStr(b) == IF b THEN "true" ELSE "false"

\* Command i runs to its end with the given outcome: the App handler sets
\* the belief and returns, and the click handler resumes with the result.
CmdFinish(i, out, body) ==
    LET r == IF cmds[i].op = "start" THEN handleStartBots(out, body)
             ELSE handleShutdown(out, body)
    IN  /\ botsRunning' = r.belief
        /\ IF cmds[i].op = "start" THEN StartClickResume(r.ret) ELSE ShutdownClickResume(r.ret)
        /\ cmds' = RemoveAt(cmds, i)
        /\ last' = Step(cmds[i].op, out, body, BoolStr(r.ret))
        /\ CmdFrame

\* The fetch of command i rejects (the request could not be sent).
CmdRejects(i) ==
    /\ i \in 1..Len(cmds)
    /\ cmds[i].phase = "fetch"
    /\ CmdFinish(i, "reject", "none")

\* await response.json() of command i settles.
CmdParsed(i) ==
    /\ i \in 1..Len(cmds)
    /\ cmds[i].phase \in {"json_ok", "json_err"}
    /\ \E body \in CmdBodies :
          CmdFinish(i, IF cmds[i].phase = "json_ok" THEN "2xx" ELSE "non2xx", body)

\* A setTimeout(() => setActionMessage(''), ...) fires.
MsgTimerFires ==
    /\ msgTimers > 0
    /\ msgTimers' = msgTimers - 1
    /\ actionMessage' = IF mounted THEN "" ELSE actionMessage
    /\ last' = Step("msgTimer", "none", "none", "none")
    /\ UNCHANGED <<botsRunning, isActionPending, cmds>>
    /\ CmdFrame

\* ------------------------------------------------------------- ConfigForm
\* A complete backend configuration (every key present and in its domain).
RemoteFull ==
    [apiKey |-> Str(<<"k">>), apiSecret |-> Str(<<"k">>),
     symbolsToTrade |-> Str(<<"E", "T", "H", "U", "S", "D", "T">>),
     rsiInterval |-> Str(<<"1", "m">>), rsiPeriod |-> Whole(7),
     rsiThresholdUp |-> Num(15), rsiThresholdDown |-> Whole(0 - 1),
     rsiEntryLevelLow |-> Whole(30), volumeSmaPeriod |-> Whole(10),
     volumeFactor |-> Whole(2), positionSizeUSDT |-> Whole(40),
     stopLossUSDT |-> Whole(5), takeProfitUSDT |-> Whole(9),
     cycleSleepSeconds |-> Whole(5), mode |-> Str(<<"l", "i", "v", "e">>),
     orderTimeoutSeconds |-> Whole(30)]

\* What the backend may hold under one key instead: nothing, null, '', a
\* text that is no number, a lone minus sign, a numeral as text, and numbers
\* outside the field's domain (negative, fractional, zero, small).
JsonVariants(f) ==
    IF f \in NumericFields
    THEN {Undefined, Null, Empty, Str(<<"x">>), Dash, Str(<<"1", "2">>),
          Whole(0 - 3), Num(25), Whole(0), Whole(3)}
    ELSE {Undefined, Null, Empty}

\* The parsed bodies of GET /api/config: RemoteFull with at most one key
\* replaced.
RemoteBodies ==
    {RemoteFull} \cup
    UNION {{[RemoteFull EXCEPT ![f] = v] : v \in JsonVariants(f)} : f \in PayloadFields}

\* A state setter of ConfigForm acts only while the form is mounted.
SetIfFormMounted(new, old) == IF formMounted THEN new ELSE old

\* What the operator can type into a type="text" numeric input.
TextInputs ==
    {Empty, Dash, Str(<<".">>), Str(<<"2", ".", "5">>), Str(<<"-", "3">>),
     Str(<<"1", "-">>), Str(<<"x">>)}

\* What a type="number" input reports as its value: '' or a valid
\* floating-point numeral.
NumberInputs ==
    {Empty, Str(<<"3">>), Str(<<"-", "3">>), Str(<<"2", ".", "5">>), Str(<<"1", "4">>)}

SymbolsExample ==
    <<" ", "e", "t", "h", "u", "s", "d", "t", " ", ",", " ", "a", "d", "a", "u", "s",
      "d", "t", " ", ",", ",", "e", "t", "h", "u", "s", "d", "t">>

\* What the operator can type into the symbols textarea.
SymbolInputs ==
    {Empty, Str(SymbolsExample), Str(<<" ", ",", " ">>), Str(<<"a", ",", "A", " ">>)}

SecretInputs == {Empty, Str(<<"k">>)}
ModeOptions == {Str(<<"p", "a", "p", "e", "r">>), Str(<<"l", "i", "v", "e">>)}
IntervalOptions == {Str(<<"1", "m">>), Str(<<"5", "m">>)}

InputsOf(name) ==
    CASE name \in numericTextFields -> TextInputs
      [] name \in integerNumberFields -> NumberInputs
      [] name = "symbolsToTrade" -> SymbolInputs
      [] name = "mode" -> ModeOptions
      [] name = "rsiInterval" -> IntervalOptions
      [] name = "active" -> {Bool(TRUE), Bool(FALSE)}
      [] OTHER -> SecretInputs

\* The inputs among them that lead to the different kinds of payload.
SaveInputsOf(name) ==
    CASE name \in numericTextFields -> {Dash, Str(<<"2", ".", "5">>)}
      [] name \in integerNumberFields -> {Empty, Str(<<"3">>)}
      [] name = "symbolsToTrade" -> {Str(SymbolsExample), Str(<<" ", ",", " ">>)}
      [] name = "mode" -> {Str(<<"p", "a", "p", "e", "r">>)}
      [] name = "rsiInterval" -> {Str(<<"5", "m">>)}
      [] name = "active" -> {Bool(TRUE)}
      [] OTHER -> {Empty}

FormFrame ==
    UNCHANGED <<appVars, mountVars, pollState, polls, pollHist, ctlVars, statusSucceeded>>

\* onChange of the input `name`: handleChange.
Change(name, value) ==
    /\ formMounted
    /\ Cardinality(edited \cup {name}) <= MaxEdited
    /\ formDelta' = Sparse(handleChange(formConfig, name,
                                        IF name = "active" THEN Empty ELSE value,
                                        IF name = "active" THEN "checkbox" ELSE "text",
                                        name = "active" /\ value = Bool(TRUE)))
    /\ edited' = edited \cup {name}
    /\ last' = Step("change", name, "none", "none")
    /\ UNCHANGED <<formMounted, message, isLoading, loadPc, saves, formTimers, loadedBody>>
    /\ FormFrame

\* message.includes(sub)
includes(text, sub) ==
    \E i \in 0..(Len(text) - Len(sub)) : SubSeq(text, i + 1, i + Len(sub)) = sub

\* disabled of the submit button: isLoading || message.includes('Guardando...')
submitDisabled == isLoading \/ includes(TextOf(message), Guardando \o Dots)


\* The form is submitted (the button, or Enter in a field): the browser
\* checks the controls, then handleSubmit runs up to the await of its fetch.
Submit ==
    /\ formMounted
    /\ ~submitDisabled
    /\ checkValidity(formConfig)
    /\ Len(saves) + formTimers < MaxPending
    /\ message' = "saving"
    /\ formDelta' = Sparse(submittedState(formConfig, formConfig))
    /\ saves' = Append(saves, [phase |-> "fetch", payload |-> configToSend(formConfig)])
    /\ last' = Step("submit", "none", "none", "none")
    /\ UNCHANGED <<formMounted, isLoading, loadPc, formTimers, edited, loadedBody>>
    /\ FormFrame

\* handleSubmit from the settled request on: the message it sets.  out is
\* "reject", "2xx" or "non2xx"; body is "badjson", "null", "object" (no
\* message field) or "message".
savedMessage(out, body) ==
    IF out = "2xx" /\ body = "object" THEN "saved"
    ELSE IF out = "2xx" /\ body = "message" THEN "server"
    ELSE "saveError"

\* Faulty variant of SaveFinish: a failed save puts the defaults back.
SaveFinishResets(i, out, body) ==
    /\ message' = SetIfFormMounted(savedMessage(out, body), message)
    /\ formDelta' = Sparse(IF savedMessage(out, body) = "saveError" THEN initialConfig
                            ELSE formConfig)
    /\ formTimers' = formTimers + 1
    /\ saves' = RemoveAt(saves, i)
    /\ last' = Step("save", out, body, "none")
    /\ UNCHANGED <<formMounted, isLoading, loadPc, edited, loadedBody>>
    /\ FormFrame

\* Faulty variant of SaveFinish: a failed save is sent again.
SaveFinishRetries(i, out, body) ==
    /\ message' = SetIfFormMounted(savedMessage(out, body), message)
    /\ formTimers' = formTimers + 1
    /\ saves' = IF savedMessage(out, body) = "saveError"
                 THEN [saves EXCEPT ![i].phase = "fetch"]
                 ELSE RemoveAt(saves, i)
    /\ last' = Step("save", out, body, "none")
    /\ UNCHANGED <<formMounted, formDelta, isLoading, loadPc, edited, loadedBody>>
    /\ FormFrame

\* Save i runs to its end: the message, and `finally` starts the 5 s timer.
\* The form's config is not touched.
SaveFinish(i, out, body) ==
    /\ message' = SetIfFormMounted(savedMessage(out, body), message)
    /\ formTimers' = formTimers + 1
    /\ saves' = RemoveAt(saves, i)
    /\ last' = Step("save", out, body, "none")
    /\ UNCHANGED <<formMounted, formDelta, isLoading, loadPc, edited, loadedBody>>
    /\ FormFrame

\* await fetch(POST /api/config) of save i settles with a response.
SaveResponds(i) ==
    /\ i \in 1..Len(saves)
    /\ saves[i].phase = "fetch"
    /\ \E ok \in BOOLEAN :
          saves' = [saves EXCEPT ![i].phase = IF ok THEN "json_ok" ELSE "json_err"]
    /\ last' = Step("saveResponse", "none", "none", "none")
    /\ UNCHANGED <<formMounted, formDelta, message, isLoading, loadPc, formTimers, edited,
                   loadedBody>>
    /\ FormFrame

\* The fetch of save i rejects.
SaveRejects(i) ==
    /\ i \in 1..Len(saves)
    /\ saves[i].phase = "fetch"
    /\ SaveFinish(i, "reject", "none")

\* await response.json() of save i settles (on the non-ok path its failure
\* is replaced by {}).
SaveParsed(i) ==
    /\ i \in 1..Len(saves)
    /\ saves[i].phase \in {"json_ok", "json_err"}
    /\ \E body \in {"badjson", "null", "object", "message"} :
          SaveFinish(i, IF saves[i].phase = "json_ok" THEN "2xx" ELSE "non2xx", body)

\* Faulty variant of LoadFinish: the catch does not put the defaults back.
LoadFinishKeeps(failed, backendConfig, out, body) ==
    /\ formDelta' = Sparse(SetIfFormMounted(IF failed THEN formConfig
                                             ELSE frontendState(backendConfig), formConfig))
    /\ loadedBody' = IF failed THEN loadedBody ELSE <<backendConfig>>
    /\ message' = SetIfFormMounted(IF failed THEN "loadError" ELSE "loaded", message)
    /\ isLoading' = SetIfFormMounted(FALSE, isLoading)
    /\ formTimers' = formTimers + 1
    /\ loadPc' = "done"
    /\ last' = Step("load", out, body, "none")
    /\ UNCHANGED <<formMounted, saves, edited>>
    /\ FormFrame

\* fetchConfig ends: catch (when failed), then finally.
LoadFinish(failed, backendConfig, out, body) ==
    /\ formDelta' = Sparse(SetIfFormMounted(IF failed THEN initialConfig
                                             ELSE frontendState(backendConfig), formConfig))
    /\ loadedBody' = IF failed THEN loadedBody ELSE <<backendConfig>>
    /\ message' = SetIfFormMounted(IF failed THEN "loadError" ELSE "loaded", message)
    /\ isLoading' = SetIfFormMounted(FALSE, isLoading)
    /\ formTimers' = formTimers + 1
    /\ loadPc' = "done"
    /\ last' = Step("load", out, body, "none")
    /\ UNCHANGED <<formMounted, saves, edited>>
    /\ FormFrame

\* await fetch(GET /api/config) of fetchConfig settles.
LoadResponds ==
    /\ loadPc = "fetch"
    /\ \/ \E out \in {"reject", "non2xx"} : LoadFinish(TRUE, NoBody, out, "none")
       \/ /\ loadPc' = "json"
          /\ last' = Step("loadResponse", "2xx", "none", "none")
          /\ UNCHANGED <<formMounted, formDelta, message, isLoading, saves, formTimers,
                         edited, loadedBody>>
          /\ FormFrame

\* await response.json() of fetchConfig fails, or gives null (reading
\* backendConfig.BINANCE throws).
LoadBadBody ==
    /\ loadPc = "json"
    /\ \E body \in {"badjson", "null"} : LoadFinish(TRUE, NoBody, "2xx", body)

\* await response.json() of fetchConfig gives the object backendConfig.
LoadParsed(backendConfig) ==
    /\ loadPc = "json"
    /\ LoadFinish(FALSE, backendConfig, "2xx", "object")

\* A setTimeout(() => setMessage(''), ...) of the form fires.
FormTimerFires ==
    /\ formTimers > 0
    /\ formTimers' = formTimers - 1
    /\ message' = SetIfFormMounted("", message)
    /\ last' = Step("formTimer", "none", "none", "none")
    /\ UNCHANGED <<formMounted, formDelta, isLoading, loadPc, saves, edited, loadedBody>>
    /\ FormFrame

\* ------------------------------------------------------------ specification
\* App, StatusDisplay and BotControls together (the form, which shares no
\* state with them, has its specifications below).
Next ==
    \/ InitConfigResponds
    \/ InitConfigParsed
    \/ InitStatusResponds
    \/ InitStatusParsed
    \/ Tick
    \/ \E i \in 1..Len(polls) : PollResponds(i)
    \/ \E i \in 1..Len(polls) : PollErrorBody(i)
    \/ \E i \in 1..Len(polls) : PollParsed(i)
    \/ StartClick
    \/ ShutdownClick
    \/ \E i \in 1..Len(cmds) : CmdResponds(i)
    \/ \E i \in 1..Len(cmds) : CmdRejects(i)
    \/ \E i \in 1..Len(cmds) : CmdParsed(i)
    \/ MsgTimerFires

Spec == Init /\ [][Next]_vars

\* The initial load and the status poller alone (the operator issues no
\* command).
PollNext ==
    \/ InitConfigResponds
    \/ InitConfigParsed
    \/ InitStatusResponds
    \/ InitStatusParsed
    \/ Tick
    \/ \E i \in 1..Len(polls) : PollResponds(i)
    \/ \E i \in 1..Len(polls) : PollErrorBody(i)
    \/ \E i \in 1..Len(polls) : PollParsed(i)

SpecPoll == Init /\ [][PollNext]_vars

\* As SpecPoll, with every fetch answered within the period: a poll is
\* issued only when the previous one has completed.
TickSequential == polls = <<>> /\ Tick

SeqNext ==
    \/ InitConfigResponds
    \/ InitConfigParsed
    \/ InitStatusResponds
    \/ InitStatusParsed
    \/ TickSequential
    \/ \E i \in 1..Len(polls) : PollResponds(i)
    \/ \E i \in 1..Len(polls) : PollErrorBody(i)
    \/ \E i \in 1..Len(polls) : PollParsed(i)

SpecSeq == Init /\ [][SeqNext]_vars

\* As SpecSeq, from every kind of slot a previous session may have left.
SpecMount == InitFrom(MountSlots) /\ [][SeqNext]_vars

\* The initial load and the fleet commands alone (the poll fetches stay
\* outstanding).
FleetNext ==
    \/ InitConfigResponds
    \/ InitConfigParsed
    \/ InitStatusResponds
    \/ InitStatusParsed
    \/ StartClick
    \/ ShutdownClick
    \/ \E i \in 1..Len(cmds) : CmdResponds(i)
    \/ \E i \in 1..Len(cmds) : CmdRejects(i)
    \/ \E i \in 1..Len(cmds) : CmdParsed(i)
    \/ MsgTimerFires

SpecFleet == Init /\ [][FleetNext]_vars

\* The form's load alone, over every backend body.
LoadNext ==
    \/ InitConfigResponds
    \/ InitConfigParsed
    \/ LoadResponds
    \/ LoadBadBody
    \/ \E backendConfig \in RemoteBodies : LoadParsed(backendConfig)
    \/ FormTimerFires

SpecLoad == Init /\ [][LoadNext]_vars

\* The operator's edits alone, after the form's load.
EditNext ==
    \/ InitConfigResponds
    \/ InitConfigParsed
    \/ LoadResponds
    \/ LoadBadBody
    \/ LoadParsed(RemoteFull)
    \/ \E name \in Fields : \E value \in InputsOf(name) : Change(name, value)
    \/ FormTimerFires

FormInit == Init /\ cache = SlotAbsent

SpecEdit == FormInit /\ [][EditNext]_vars

\* The saves alone (they may overlap), after the form's load.
SaveNext ==
    \/ InitConfigResponds
    \/ InitConfigParsed
    \/ LoadResponds
    \/ LoadBadBody
    \/ LoadParsed(RemoteFull)
    \/ Submit
    \/ \E i \in 1..Len(saves) : SaveResponds(i)
    \/ \E i \in 1..Len(saves) : SaveRejects(i)
    \/ \E i \in 1..Len(saves) : SaveParsed(i)
    \/ FormTimerFires

SpecSave == Init /\ [][SaveNext]_vars

\* A submit while no save is outstanding.
SubmitAlone == saves = <<>> /\ Submit

\* The form edited and saved, one save at a time: its load of a complete
\* backend configuration, edits that matter to a payload, and the saves.
FormNext ==
    \/ InitConfigResponds
    \/ InitConfigParsed
    \/ LoadResponds
    \/ LoadBadBody
    \/ LoadParsed(RemoteFull)
    \/ \E name \in Fields : \E value \in SaveInputsOf(name) : Change(name, value)
    \/ SubmitAlone
    \/ \E i \in 1..Len(saves) : SaveResponds(i)
    \/ \E i \in 1..Len(saves) : SaveRejects(i)
    \/ \E i \in 1..Len(saves) : SaveParsed(i)
    \/ FormTimerFires

SpecForm == FormInit /\ [][FormNext]_vars

\* An edit made while no save is outstanding.
ChangeIdle(name, value) == saves = <<>> /\ Change(name, value)

\* The form edited, then submitted several times in a row (the saving
\* message does not disable the submit control) while the requests stay
\* outstanding.
ResubmitNext ==
    \/ InitConfigResponds
    \/ InitConfigParsed
    \/ LoadResponds
    \/ LoadBadBody
    \/ LoadParsed(RemoteFull)
    \/ \E name \in Fields : \E value \in SaveInputsOf(name) : ChangeIdle(name, value)
    \/ Submit
    \/ FormTimerFires

SpecResubmit == FormInit /\ [][ResubmitNext]_vars

\* The two stop fields edited with every kind of text, and the saves.
StopsNext ==
    \/ InitConfigResponds
    \/ InitConfigParsed
    \/ LoadResponds
    \/ LoadBadBody
    \/ LoadParsed(RemoteFull)
    \/ \E name \in {"stopLossUSDT", "takeProfitUSDT"} :
          \E value \in TextInputs : Change(name, value)
    \/ SubmitAlone
    \/ \E i \in 1..Len(saves) : SaveResponds(i)
    \/ \E i \in 1..Len(saves) : SaveRejects(i)
    \/ \E i \in 1..Len(saves) : SaveParsed(i)
    \/ FormTimerFires

SpecStops == FormInit /\ [][StopsNext]_vars

\* The right operands of `||` in App's flatConfig.
flatDefaults ==
    [apiKey |-> Empty, apiSecret |-> Empty,
     mode |-> Str(<<"p", "a", "p", "e", "r">>), rsiInterval |-> Str(<<"1", "m">>),
     rsiPeriod |-> Whole(14), rsiThresholdUp |-> Num(15),
     rsiThresholdDown |-> Whole(0 - 1), rsiEntryLevelLow |-> Whole(30),
     positionSizeUSDT |-> Whole(50), stopLossUSDT |-> Whole(0),
     takeProfitUSDT |-> Whole(0), cycleSleepSeconds |-> Whole(60),
     volumeSmaPeriod |-> Whole(20), volumeFactor |-> Num(15),
     orderTimeoutSeconds |-> Whole(60), symbolsToTrade |-> Empty]

\* flatConfig of App's fetchInitialData: every key is
\* `configData.SECTION?.key || default`.
flatConfig(configData) ==
    [f \in PayloadFields |-> OrElse(configData[f], flatDefaults[f])]

\* await configResponse.json() settles with an object: setConfig(flatConfig),
\* the flattened configuration kept in App's state, and the status fetch is
\* issued.
InitConfigFlattened ==
    /\ initPc = "configJson"
    /\ InitFrame
    /\ UNCHANGED statusSucceeded
    /\ \E configData \in RemoteBodies :
          /\ last' = Step("initConfigFlat", "2xx", configData, "none")
          /\ initPc' = "status"
          /\ config' = flatConfig(configData)
          /\ FormMount
          /\ UNCHANGED <<botsRunning, initialLoadingError, mountVars>>

\* App's initial load over every body of GET /api/config.
FlattenNext ==
    \/ InitConfigResponds
    \/ InitConfigFlattened
    \/ InitStatusResponds
    \/ InitStatusParsed

SpecFlatten == FormInit /\ [][FlattenNext]_vars

\* App and BotControls where every fetch settles (with a response or a
\* rejection), every body read settles and every timer fires.
SpecFleetFair ==
    /\ Init
    /\ [][FleetNext]_vars
    /\ WF_vars(InitConfigResponds)
    /\ WF_vars(InitConfigParsed)
    /\ WF_vars(InitStatusResponds)
    /\ WF_vars(InitStatusParsed)
    /\ WF_vars(\E i \in 1..Len(cmds) : CmdResponds(i) \/ CmdRejects(i))
    /\ WF_vars(\E i \in 1..Len(cmds) : CmdParsed(i))
    /\ WF_vars(MsgTimerFires)

\* A session during which the fleet runs on the backend (it was started
\* before the session, and no shutdown is sent): a status body reports
\* bots_running true, and POST /api/start_bots is refused with a non-2xx
\* response.  Requests may still fail on the way.  The status view keeps
\* polling, one poll at a time.
RunningStatusParsed ==
    /\ InitStatusParsed
    /\ last'.body = "object" => botsRunning' = "true"

RunningStartRefused(i) ==
    /\ CmdResponds(i)
    /\ cmds'[i].phase = "json_err"

RunningPollParsed(i) ==
    /\ PollParsed(i)
    /\ last'.body # "false"

\* The operator answers the confirmation of the shutdown with "cancel".
ShutdownDeclined ==
    /\ ShutdownClick
    /\ last'.out = "declined"

RunningNext ==
    \/ InitConfigResponds
    \/ InitConfigParsed
    \/ InitStatusResponds
    \/ RunningStatusParsed
    \/ TickSequential
    \/ \E i \in 1..Len(polls) : PollResponds(i)
    \/ \E i \in 1..Len(polls) : PollErrorBody(i)
    \/ \E i \in 1..Len(polls) : RunningPollParsed(i)
    \/ StartClick
    \/ ShutdownDeclined
    \/ \E i \in 1..Len(cmds) : RunningStartRefused(i)
    \/ \E i \in 1..Len(cmds) : CmdRejects(i)
    \/ \E i \in 1..Len(cmds) : CmdParsed(i)
    \/ MsgTimerFires

\* Every request settles, every timer fires, and the operator presses the
\* start button again whenever it is enabled.
SpecRunning ==
    /\ Init
    /\ [][RunningNext]_vars
    /\ WF_vars(InitConfigResponds)
    /\ WF_vars(InitConfigParsed)
    /\ WF_vars(InitStatusResponds)
    /\ WF_vars(RunningStatusParsed)
    /\ WF_vars(StartClick)
    /\ WF_vars(\E i \in 1..Len(cmds) : RunningStartRefused(i))
    /\ WF_vars(\E i \in 1..Len(cmds) : CmdParsed(i))
    /\ WF_vars(MsgTimerFires)

\* One input of each kind: a text, a decimal, an integer, the checkbox.
SampleFields == {"symbolsToTrade", "stopLossUSDT", "cycleSleepSeconds", "active"}

\* The whole initial load of App with the form's load and edits, where every
\* request settles and every timer fires: the browser settles a fetch (with
\* a response or a rejection) and runs a due setTimeout callback.
LoadFairNext ==
    \/ InitConfigResponds
    \/ InitConfigParsed
    \/ InitStatusResponds
    \/ InitStatusParsed
    \/ LoadResponds
    \/ LoadBadBody
    \/ LoadParsed(RemoteFull)
    \/ \E name \in SampleFields : \E value \in SaveInputsOf(name) : Change(name, value)
    \/ FormTimerFires

SpecLoadFair ==
    /\ FormInit
    /\ [][LoadFairNext]_vars
    /\ WF_vars(LoadResponds)
    /\ WF_vars(LoadBadBody \/ LoadParsed(RemoteFull))
    /\ WF_vars(FormTimerFires)

\* The three components side by side in one session: the initial load, the
\* poll issued at mount (answered at any moment), the fleet commands, and
\* the form's load, an edit (the checkbox) and saves.
ConsoleNext ==
    \/ InitConfigResponds
    \/ InitConfigParsed
    \/ InitStatusResponds
    \/ InitStatusParsed
    \/ \E i \in 1..Len(polls) : PollResponds(i)
    \/ \E i \in 1..Len(polls) : PollErrorBody(i)
    \/ \E i \in 1..Len(polls) : PollParsed(i)
    \/ StartClick
    \/ ShutdownClick
    \/ \E i \in 1..Len(cmds) : CmdResponds(i)
    \/ \E i \in 1..Len(cmds) : CmdRejects(i)
    \/ \E i \in 1..Len(cmds) : CmdParsed(i)
    \/ MsgTimerFires
    \/ LoadResponds
    \/ LoadBadBody
    \/ LoadParsed(RemoteFull)
    \/ Change("active", Bool(TRUE))
    \/ SubmitAlone
    \/ \E i \in 1..Len(saves) : SaveResponds(i)
    \/ \E i \in 1..Len(saves) : SaveRejects(i)
    \/ \E i \in 1..Len(saves) : SaveParsed(i)
    \/ FormTimerFires

SpecConsole == FormInit /\ [][ConsoleNext]_vars

\* ==================================================================== claims
PollFailed == {"reject", "non2xx"}
PollOk == {"ok", "okNoWrite"}

\* C1 (as claimed; under SpecSeq, where each poll completes before the next
\* is issued): after each poll
\* the exposed snapshot is the statuses of the most recent successful poll
\* and the error flag is set exactly when the most recent poll failed.
C1_SequentialPolls ==
    (mounted /\ lastPoll # "none")
        => /\ statuses = IF lastGood.some THEN lastGood.s ELSE closureStatuses
           /\ (error = ErrMsg) <=> (lastPoll = "failed")

\* C2 (as claimed): a 2xx status response without an array `statuses`
\* leaves the snapshot and the slot as they were.
C2_MalformedLeavesData ==
    [][(last'.op = "poll" /\ last'.out = "malformed")
          => (statuses' = statuses /\ cache' = cache)]_vars

\* C3: a failed poll (the fetch rejects, or a non-2xx response) sets the
\* error flag and changes neither the snapshot nor the slot: an empty
\* snapshot stays empty, a previous snapshot stays exposed.
C3_FailedPollKeepsData ==
    [][(mounted /\ last'.op = "poll" /\ last'.out \in PollFailed)
          => (error' = ErrMsg /\ statuses' = statuses /\ cache' = cache)]_vars

\* C3 witness: a poll has just failed with a non-2xx response while the
\* snapshot of an earlier successful poll is exposed (Stale).
C3_Witness ==
    /\ mounted
    /\ last.op = "poll" /\ last.out = "non2xx"
    /\ lastGood.some /\ statuses = lastGood.s /\ statuses # <<>>
    /\ error = ErrMsg

\* C4 (as claimed): after every successful poll returning S the snapshot
\* is S, the slot holds the serialization of S and the error flag is clear;
\* the slot always equals the statuses of the most recent successful poll.
C4_SuccessWritesSlot ==
    /\ (mounted /\ last.op = "poll" /\ last.out \in PollOk)
          => (statuses = lastGood.s /\ error = ErrNull)
    /\ lastGood.some => cache = Stringify(lastGood.s)

\* C4 (amended): after every successful poll returning S the snapshot is S
\* and the error flag is clear; the slot holds the serialization of S when
\* setItem did not throw and is unchanged when it threw; and the slot
\* changes in no other step.
C4_SuccessWritesSlotUnlessThrown ==
    [][/\ (last'.op = "poll" /\ last'.out \in PollOk)
            => /\ mounted => (statuses' = lastGood'.s /\ error' = ErrNull)
               /\ cache' = IF last'.out = "ok" THEN Stringify(lastGood'.s) ELSE cache
       /\ (cache' # cache) => (last'.op = "poll" /\ last'.out = "ok")]_vars

\* C4 witness: a successful poll has just replaced the snapshot and
\* overwritten a slot that held something else at mount.
C4_Witness ==
    /\ mounted
    /\ last.op = "poll" /\ last.out = "ok"
    /\ lastGood.s = <<ObjA, ObjB>>
    /\ statuses = lastGood.s /\ cache = Stringify(statuses) /\ error = ErrNull
    /\ closureStatuses = <<ObjB>>

StatusFetchSteps == {"poll", "pollResponse", "initStatus", "initStatusBody"}

\* C5: once the belief has left Unknown, no step of a status fetch (the
\* initial one or a poll, whatever bots_running it reports) changes it.
C5_SeedOnce ==
    [][(botsRunning # "null" /\ last'.op \in StatusFetchSteps)
          => botsRunning' = botsRunning]_vars

\* C5 witness: seeded Running, a poll has just reported bots_running false
\* and the belief is still Running.
C5_Witness ==
    /\ botsRunning = "true"
    /\ cmds = <<>> /\ ~isActionPending /\ actionMessage = ""
    /\ last.op = "poll" /\ last.out = "ok" /\ last.body = "false"

C7_StartFailure ==
    (last.op = "start" /\ last.out \in {"reject", "non2xx"})
        => (botsRunning = "false" /\ last.ret = "false")

\* C7 witness: a start has just been answered non-2xx with {error: ...}.
C7_Witness ==
    /\ last.op = "start" /\ last.out = "non2xx" /\ last.body = "error"
    /\ botsRunning = "false" /\ last.ret = "false"
    /\ actionMessage = MsgStartError /\ ~isActionPending

\* C8 (as claimed): when POST /api/start_bots is answered 2xx, whatever the
\* body, the belief becomes Running and the caller receives true.
C8_StartSuccess ==
    (last.op = "start" /\ last.out = "2xx")
        => (botsRunning = "true" /\ last.ret = "true")

\* C9 (as claimed): the caller of shutdown receives false exactly when the
\* request could not be sent; any HTTP response gives true.
C9_ShutdownFlag ==
    last.op = "shutdown" => ((last.ret = "false") <=> (last.out = "reject"))

\* C10: after every completed shutdown, whatever its outcome, the belief
\* is Stopped.
C10_ShutdownStops == last.op = "shutdown" => botsRunning = "false"

\* C10 witness: a shutdown whose request could not be sent has just ended.
C10_Witness ==
    /\ last.op = "shutdown" /\ last.out = "reject" /\ last.ret = "false"
    /\ botsRunning = "false"

\* C11: at most one fleet command (start or shutdown POST) is in flight at
\* any time; while one is pending the pending flag is up and neither the
\* start nor the shutdown control can issue another.
C11_OneCommandInFlight ==
    /\ Len(cmds) <= 1
    /\ (cmds # <<>> => (isActionPending /\ startDisabled /\ shutdownDisabled))

\* C11 witness: a start is awaiting its body while the belief alone
\* (Stopped) would leave the start control enabled.
C11_Witness ==
    /\ Len(cmds) = 1 /\ cmds[1].op = "start" /\ cmds[1].phase = "json_ok"
    /\ botsRunning = "false" /\ isActionPending /\ startDisabled

\* C12: a step that issues a start command is taken with the belief
\* neither Running (true) nor Unknown (null); a step that issues a shutdown
\* command is taken with the belief neither Stopped (false) nor Unknown.
C12_GatedByBelief ==
    [][Len(cmds') > Len(cmds) =>
          IF cmds'[Len(cmds')].op = "start"
          THEN botsRunning \notin {"true", "null"}
          ELSE botsRunning \notin {"false", "null"}]_vars

\* C12 witness: a shutdown was confirmed and issued under the belief
\* Running.
C12_Witness ==
    /\ last.op = "shutdownClick" /\ last.out = "confirmed"
    /\ Len(cmds) = 1 /\ cmds[1].op = "shutdown" /\ botsRunning = "true"

\* C13 (as claimed): while a config save is pending the submit control is
\* disabled, so at most one POST /api/config is in flight.
C13_SaveNotReentrant ==
    /\ Len(saves) <= 1
    /\ (saves # <<>> => submitDisabled)

\* C14 (as claimed): in every payload transmitted by a save, stopLossUSDT
\* and rsiThresholdDown are numbers, never the lone minus sign or another
\* text.
C14_NoDashInPayload ==
    \A i \in 1..Len(saves) :
        \A f \in {"stopLossUSDT", "rsiThresholdDown"} : saves[i].payload[f].t = "num"

\* C15 (as claimed): in every payload transmitted by a save, rsiPeriod and
\* volumeSmaPeriod are integers > 0, cycleSleepSeconds is 0 or an integer
\* >= 5, and orderTimeoutSeconds is an integer >= 0.
C15_IntegerFieldsInPayload ==
    \A i \in 1..Len(saves) :
        LET p == saves[i].payload
        IN  /\ \A f \in integerNumberFields : IsInteger(p[f])
            /\ p.rsiPeriod.n > 0
            /\ p.volumeSmaPeriod.n > 0
            /\ p.cycleSleepSeconds.n = 0 \/ p.cycleSleepSeconds.n >= 5 * Scale
            /\ p.orderTimeoutSeconds.n >= 0

\* A value of a decimal field that is a number, or a text that reads as one.
ValidNumber(value) ==
    \/ value.t = "num"
    \/ value.t = "str" /\ value # Empty /\ StringToNumber(value.s).t = "num"

\* C16 (as claimed): every decimal field of the form holds a valid number,
\* the empty text, or - for stopLossUSDT and rsiThresholdDown only - the
\* lone minus sign.
C16_DecimalFieldsValid ==
    \A f \in numericTextFields :
        \/ ValidNumber(formConfig[f])
        \/ formConfig[f] = Empty
        \/ f \in {"stopLossUSDT", "rsiThresholdDown"} /\ formConfig[f] = Dash

NormalizedExample ==
    <<"E", "T", "H", "U", "S", "D", "T", ",", "A", "D", "A", "U", "S", "D", "T", ",",
      "E", "T", "H", "U", "S", "D", "T">>

\* C17: a submit step leaves in every transmitted field of the form the
\* value it placed in the payload, and the steps of a save after it (the
\* response, the body, the rejection: success or failure) leave the form's
\* config as it is.
C17_SaveKeepsLocalState ==
    [][/\ last'.op = "submit" =>
              \A f \in PayloadFields : formConfig'[f] = saves'[Len(saves')].payload[f]
       /\ last'.op \in {"saveResponse", "save"} => formConfig' = formConfig]_vars

\* C17 witness: the symbols were edited to the example text, the submit
\* normalized them, and the save has just failed with a non-2xx answer: the
\* form still shows the normalized text.
C17_Witness ==
    /\ last.op = "save" /\ last.out = "non2xx"
    /\ edited = {"symbolsToTrade"}
    /\ formConfig.symbolsToTrade = Str(NormalizedExample)
    /\ TextOf(message) = MsgSaveError

\* The position of the k-th comma of text
CommaAt(text, k) ==
    CHOOSE i \in 1..Len(text) :
        text[i] = "," /\ Cardinality({j \in 1..i : text[j] = ","}) = k

\* The k-th comma-separated entry of text, trimmed and upper-cased
EntryOf(text, k) ==
    LET from == IF k = 1 THEN 1 ELSE CommaAt(text, k - 1) + 1
        to == IF k = Count(text, ",") + 1 THEN Len(text) ELSE CommaAt(text, k) - 1
    IN  toUpperCase(trim(SubSeq(text, from, to)))

NotBlank(entry) == entry # <<>>

\* The non-blank entries of text, in their order, duplicates included
EntriesOf(text) ==
    SelectSeq([k \in 1..(Count(text, ",") + 1) |-> EntryOf(text, k)], NotBlank)

\* C18: a submit places in the payload, as symbolsToTrade, the comma-join
\* in original order of the entries of the text held by the form, each
\* trimmed and upper-cased, blank entries dropped and duplicates retained;
\* " ethusdt , adausdt ,,ethusdt" gives "ETHUSDT,ADAUSDT,ETHUSDT".
C18_SymbolsNormalized ==
    [][last'.op = "submit" =>
          LET typed == formConfig.symbolsToTrade.s
              sent == saves'[Len(saves')].payload.symbolsToTrade
          IN  /\ sent = Str(join(EntriesOf(typed)))
              /\ typed = SymbolsExample => sent = Str(NormalizedExample)]_vars

\* C18 witness: the example text was typed and submitted; the save in
\* flight carries its normal form, the duplicate included.
C18_Witness ==
    /\ last.op = "submit" /\ edited = {"symbolsToTrade"}
    /\ Len(saves) = 1 /\ saves[1].phase = "fetch"
    /\ saves[1].payload.symbolsToTrade = Str(NormalizedExample)

\* C19 (as claimed): no symbol occurs twice in a transmitted symbolsToTrade.
C19_SymbolsDeduplicated ==
    \A i \in 1..Len(saves) :
        LET sent == split(saves[i].payload.symbolsToTrade.s)
        IN  \A j, k \in 1..Len(sent) : sent[j] = sent[k] => j = k

\* The number of entries of list equal to x
Occurrences(list, x) == Cardinality({k \in 1..Len(list) : list[k] = x})

\* C19 (amended): a submit does not de-duplicate: every symbol occurs in
\* the transmitted symbolsToTrade as many times as among the non-blank
\* entries of the text held by the form.
C19_SymbolsKeepMultiplicity ==
    [][last'.op = "submit" =>
          LET typed == EntriesOf(formConfig.symbolsToTrade.s)
              sent == filterNonEmpty(split(saves'[Len(saves')].payload.symbolsToTrade.s))
          IN  \A k \in 1..Len(typed) :
                  Occurrences(sent, typed[k]) = Occurrences(typed, typed[k])]_vars

\* C19 witness: a save whose payload names ETHUSDT twice has been answered
\* and awaits its body.
C19_Witness ==
    /\ Len(saves) = 1 /\ saves[1].phase = "json_ok"
    /\ Occurrences(split(saves[1].payload.symbolsToTrade.s),
                   <<"E", "T", "H", "U", "S", "D", "T">>) = 2

\* The number n (in units of 1/Scale) is in the domain of the field f.
InDomain(f, n) ==
    CASE f \in {"rsiPeriod", "volumeSmaPeriod"} -> n % Scale = 0 /\ n > 0
      [] f = "cycleSleepSeconds" -> n = 0 \/ (n % Scale = 0 /\ n >= 5 * Scale)
      [] f = "orderTimeoutSeconds" -> n % Scale = 0 /\ n >= 0
      [] f = "takeProfitUSDT" -> n >= 0
      [] f = "volumeFactor" -> n > 0
      [] OTHER -> TRUE

\* What a load is to leave in the field f for the remote value v: v when it
\* is present and valid for f, the default of f otherwise.
Projected(f, v) ==
    IF f \in NumericFields
    THEN IF ValidNumber(v) /\ InDomain(f, Number(v).n) THEN Number(v) ELSE initialConfig[f]
    ELSE IF v.t = "str" /\ v # Empty THEN v ELSE initialConfig[f]

\* C20 (as claimed): after a successful load every field of the form is
\* defined and holds the remote value when that is present and valid for
\* the field, and the field's default otherwise.
C20_LoadProjection ==
    (last.op = "load" /\ last.body = "object") =>
        /\ formConfig.active.t = "bool"
        /\ \A f \in PayloadFields : formConfig[f] = Projected(f, loadedBody[1][f])

\* C21: a load that fails (the fetch rejects, a non-2xx answer, a body that
\* is not JSON or is null) leaves in the mounted form exactly initialConfig,
\* the load-error message and a timer that clears it; every end of a load,
\* success or failure, lowers isLoading; a load in progress ends, and the
\* load-error message is cleared later.
C21_LoadFailureAbsorbed ==
    /\ [][(formMounted /\ last'.op = "load") =>
              /\ ~isLoading'
              /\ last'.body # "object" =>
                    /\ formConfig' = initialConfig
                    /\ message' = "loadError"
                    /\ formTimers' = formTimers + 1]_vars
    /\ (formMounted /\ loadPc \in {"fetch", "json"}) ~> (~isLoading \/ ~formMounted)
    /\ (formMounted /\ message = "loadError") ~> (message # "loadError" \/ ~formMounted)

\* C21 witness: a field was edited while the load was in progress, the
\* body of the answer was not JSON, and the form holds the defaults again
\* with the loading flag down.
C21_Witness ==
    /\ formMounted /\ last.op = "load" /\ last.body = "badjson"
    /\ edited # {} /\ formConfig = initialConfig
    /\ message = "loadError" /\ ~isLoading /\ formTimers > 0

\* The step just taken is the failure of App's GET /api/config: the fetch
\* rejected, the answer was not 2xx, or its body was not a JSON object.
InitConfigFailed(step) ==
    \/ step.op = "initConfig" /\ step.out \in {"reject", "non2xx"}
    \/ step.op = "initConfigBody" /\ step.body # "object"

IsCachedArray(slot) == slot.kind = "json" /\ slot.isArray

\* item is a JSON object (not null, not a number, not an array)
IsJsonObject(item) == item.t = "obj"

\* item passes for an object in JavaScript: a JSON object or an array
IsObjectLike(item) == item.t \in {"obj", "arr"}

\* C23 (as claimed): until a poll succeeds the slot is the one found at
\* mount, and the snapshot taken at mount is the cached list when the slot
\* holds an array of objects only, and the empty list in every other case.
C23_RehydrateAllOrNothing ==
    ~lastGood.some =>
        closureStatuses =
            IF IsCachedArray(cache) /\ \A i \in 1..Len(cache.items) : IsJsonObject(cache.items[i])
            THEN cache.items ELSE <<>>

\* C23 (amended): the snapshot taken at mount is the cached array without
\* its null and non-object elements (a nested array counts as an object),
\* in their order, and the empty list when the slot is absent, empty,
\* unparseable or not an array; at mount it is the exposed snapshot.
C23_RehydrateFiltered ==
    /\ ~lastGood.some =>
          closureStatuses =
              IF IsCachedArray(cache) THEN SelectSeq(cache.items, IsObjectLike) ELSE <<>>
    /\ last.op = "mount" => statuses = closureStatuses

\* C23 witness: at mount the slot holds [null, {ADAUSDT}] and the snapshot
\* is [{ADAUSDT}].
C23_Witness ==
    /\ last.op = "mount" /\ cache = Stringify(<<JNull, ObjB>>)
    /\ statuses = <<ObjB>>

\* The number of polls whose fetch has not settled.
Fetching(ps) == Cardinality({i \in 1..Len(ps) : ps[i] = "fetch"})

\* C24: at mount exactly one poll has been issued, before any tick; a tick
\* happens only while the view is mounted and issues exactly one poll; the
\* interval runs exactly while the view is mounted; and once the view is
\* torn down no poll fetch is issued any more.
C24_PollCadence ==
    /\ [](last.op = "mount" => polls = <<"fetch">>)
    /\ [](timer <=> mounted)
    /\ [][/\ last'.op = "tick" => (mounted /\ polls' = Append(polls, "fetch"))
          /\ Fetching(polls') > Fetching(polls) => last'.op = "tick"
          /\ ~mounted => (~mounted' /\ Len(polls') <= Len(polls)
                           /\ Fetching(polls') <= Fetching(polls))]_vars

\* C24 witness: the view was torn down while polls were outstanding; they
\* have completed and none is outstanding.
C24_Witness ==
    /\ ~mounted /\ ~timer /\ initialLoadingError
    /\ last.op = "poll" /\ polls = <<>>

\* C25: a submit that directly follows a submit (no edit, nor any other
\* step, in between) transmits the payload of the first and leaves the
\* form's config as the first left it; and for the config x of every state,
\* the config a submit leaves is a fixed point of submitting: it gives the
\* payload of x again and is left unchanged.
C25_SubmitIdempotent ==
    /\ [][(last.op = "submit" /\ last'.op = "submit") =>
              /\ saves'[Len(saves')].payload = saves[Len(saves)].payload
              /\ formConfig' = formConfig]_vars
    /\ [](LET once == submittedState(formConfig, formConfig)
          IN  /\ configToSend(once) = configToSend(formConfig)
              /\ submittedState(once, once) = once)

\* C25 witness: the example symbols were typed and submitted twice in a
\* row; both saves are in flight with the normalized list.
C25_Witness ==
    /\ last.op = "submit" /\ edited = {"symbolsToTrade"}
    /\ Len(saves) = 2
    /\ saves[1].payload.symbolsToTrade = Str(NormalizedExample)
    /\ saves[2].payload = saves[1].payload
    /\ formConfig.symbolsToTrade = Str(NormalizedExample)

\* The steps of a poll, of a fleet command (with the timer of its message),
\* of the form (load, edit, save, the timer of its message), and of App's
\* configuration load.
PollOps == {"tick", "pollResponse", "poll"}
CmdOps == {"startClick", "shutdownClick", "cmdResponse", "start", "shutdown", "msgTimer"}
FormOps == {"loadResponse", "load", "change", "submit", "saveResponse", "save", "formTimer"}
AppConfigOps == {"initConfig", "initConfigBody"}

\* What C26 says of polls, of commands, of the form, and of the slot: read
\* once at mount (the snapshot changes only in a poll afterwards) and
\* written only by a successful poll.
DisjointSteps ==
    /\ last'.op \in PollOps => (botsRunning' = botsRunning /\ formConfig' = formConfig)
    /\ last'.op \in CmdOps => (statuses' = statuses /\ cache' = cache)
    /\ last'.op \in FormOps =>
          (statuses' = statuses /\ cache' = cache /\ botsRunning' = botsRunning)
    /\ statuses' # statuses => last'.op = "poll"
    /\ cache' # cache => (last'.op = "poll" /\ last'.out = "ok")

Posting(ss) == Cardinality({i \in 1..Len(ss) : ss[i].phase = "fetch"})

\* C27: a submit issues exactly one POST /api/config; no other step (of
\* the load, of an edit, of a timer, of a save) issues one; and the end of
\* a save, failed or not, takes it off the outstanding saves: it is not
\* sent again.
C27_OnePostPerSubmit ==
    [][/\ last'.op = "submit" =>
              (Len(saves') = Len(saves) + 1 /\ Posting(saves') = Posting(saves) + 1)
       /\ last'.op # "submit" =>
              (Len(saves') <= Len(saves) /\ Posting(saves') <= Posting(saves))
       /\ last'.op = "save" => Len(saves') = Len(saves) - 1]_vars

\* C27 witness: after an edit a save was rejected by the network; no save
\* is outstanding.
C27_Witness ==
    /\ last.op = "save" /\ last.out = "reject"
    /\ edited # {} /\ saves = <<>> /\ message = "saveError"

\* C28 (as claimed): a submit with stopLossUSDT or takeProfitUSDT empty
\* transmits 0 for that field.
C28_EmptyMeansDisabled ==
    [][last'.op = "submit" =>
          \A f \in {"stopLossUSDT", "takeProfitUSDT"} :
              formConfig[f] = Empty => saves'[Len(saves')].payload[f] = Whole(0)]_vars

\* C29 (as claimed): a number the remote configuration carries under a key
\* (0 included) is the value App's flattened configuration holds for it.
C29_RemoteNumberKept ==
    last.op = "initConfigFlat" =>
        \A f \in NumericFields :
            last.body[f].t = "num" => config[f] = last.body[f]

IntegerOrEmpty(value) == value = Empty \/ IsInteger(value)

\* C30 (as claimed): an edit of rsiPeriod, volumeSmaPeriod, cycleSleepSeconds
\* or orderTimeoutSeconds leaves an integer or '' in the field when it held
\* one before: a non-integer is rejected and the prior value kept.
C30_IntegerFieldsStayInteger ==
    [][last'.op = "change" /\ last'.out \in integerNumberFields
          /\ IntegerOrEmpty(formConfig[last'.out])
          => IntegerOrEmpty(formConfig'[last'.out])]_vars

\* C31: an edit of the input f changes at most the key f of the form's config
\* (nothing when the value is rejected) and issues no request: no save, load,
\* poll or command is started by it.
C31_EditFrame ==
    [][last'.op = "change" =>
          /\ \A f \in Fields \ {last'.out} : formConfig'[f] = formConfig[f]
          /\ saves' = saves
          /\ loadPc' = loadPc
          /\ polls' = polls
          /\ cmds' = cmds
          /\ initPc' = initPc]_vars

\* An accepted edit made on the configuration loaded from the backend.
C31_Witness ==
    /\ last.op = "change"
    /\ loadedBody = <<RemoteFull>>
    /\ formConfig[last.out] # RemoteFull[last.out]
    /\ \E f \in Fields \ {last.out} : formConfig[f] # initialConfig[f]

\* C32 (as claimed): when a poll succeeds and, as the very next step, a poll
\* issued before it succeeds too, the older response does not overwrite the
\* snapshot or the slot.
C32_NewestPollWins ==
    [][(/\ last.op = "poll" /\ last.out = "ok"
        /\ last'.op = "poll" /\ last'.out = "ok"
        /\ last'.ret < last.ret)
          => (statuses' = statuses /\ cache' = cache)]_vars

\* C33 (as claimed): once the status view is unmounted, the completion of a
\* poll that was in flight changes neither the snapshot nor the slot.
C33_NoWriteAfterTeardown ==
    [][(~mounted /\ last'.op = "poll") => (statuses' = statuses /\ cache' = cache)]_vars

\* C34 (as claimed): the start and the shutdown control are never both
\* enabled, and once the belief is not null and no command is pending exactly
\* one of them is enabled.
C34_ControlsExclusive ==
    /\ startDisabled \/ shutdownDisabled
    /\ (botsRunning # "null" /\ ~isActionPending) => (startDisabled # shutdownDisabled)

\* C35 (as claimed): while the fleet runs on the backend, from a state where
\* the controls are shown, the initial load has ended and no command is in
\* flight, the shutdown control becomes enabled.
C35_ShutdownReachable ==
    (mounted /\ initPc = "done" /\ cmds = <<>>) ~> ~shutdownDisabled

\* C36: every start or shutdown command that was issued completes; the step
\* that completes it leaves the pending flag false and the belief Running or
\* Stopped, and the flag is set exactly while a command is outstanding.
C36_CommandCompletes ==
    /\ isActionPending ~> ~isActionPending
    /\ [](isActionPending <=> cmds # <<>>)
    /\ [][last'.op \in {"start", "shutdown"}
            => (~isActionPending' /\ cmds' = <<>> /\ botsRunning' \in {"true", "false"})]_vars

\* A start command has just failed on the network: it is complete, the flag
\* is false and the start control is enabled again.
C36_Witness ==
    /\ last.op = "start" /\ last.out = "reject"
    /\ ~isActionPending /\ cmds = <<>>
    /\ ~startDisabled

\* C37 (as claimed): the belief leaves null whatever the outcome of the
\* initial configuration and status fetches, and never returns to null.
C37_SeedingLiveness ==
    /\ <>(botsRunning # "null")
    /\ [][botsRunning # "null" => botsRunning' # "null"]_vars

ResultNotices == {"saved", "server", "saveError"}

\* C38 (as claimed): a timer of the form does not clear the in-progress
\* notice while a save is outstanding, and it does not clear the notice of a
\* save's result while a timer started earlier than that notice's own is
\* still pending (timers fire in the order they were started).
C38_NoticeKeptUntilOwnTimer ==
    [][last'.op = "formTimer" =>
          /\ (message = "saving" /\ saves # <<>>) => message' = message
          /\ (message \in ResultNotices /\ formTimers > 1) => message' = message]_vars

\* C39: a shutdown click whose confirmation is declined issues no request
\* and leaves the belief, the pending flag, the action message and its
\* timers as they were.
C39_DeclineChangesNothing ==
    [][(last'.op = "shutdownClick" /\ last'.out = "declined")
          => /\ cmds' = cmds
             /\ botsRunning' = botsRunning
             /\ isActionPending' = isActionPending
             /\ actionMessage' = actionMessage
             /\ msgTimers' = msgTimers
             /\ polls' = polls]_vars

\* The confirmation has just been declined with the fleet believed running:
\* the shutdown control is still enabled.
C39_Witness ==
    /\ last.op = "shutdownClick" /\ last.out = "declined"
    /\ botsRunning = "true"
    /\ ~shutdownDisabled
    /\ cmds = <<>>

====
